---- MODULE Spec2Model ----
(***************************************************************************)
(* Model of the fishing-game server core: the request gates of auth.py     *)
(* (require_auth, rate_limit, cooldown_required) wrapped around            *)
(* FishingGame.cast_line of game_logic.py, with the store reached by       *)
(* cast_line (tables fish_species and catches).                            *)
(*                                                                         *)
(* Units: the clock is in whole seconds; weights are in thousandths of a   *)
(* weight unit; base_probability is in units of 1/10000.                   *)
(***************************************************************************)
EXTENDS Integers, Sequences, FiniteSets, TLC

VARIABLES
    now,                 \* the wall clock read by time.time()
    rate_limit_storage,  \* auth.py:13  user id -> list of request times
    cooldown_storage,    \* auth.py:14  dict user id -> time of last cast
    fish_table,          \* the store's table fish_species
    catches,             \* the store's table catches (row id = position)
    fish_species_cache,  \* game_logic.py:14
    last_cache_update,   \* game_logic.py:15
    pc,                  \* position of each request in its handler
    local,               \* the locals of each request
    admitted             \* history: per user, the times of the requests the
                         \* rate limiter admitted less than a window ago

vars == <<now, rate_limit_storage, cooldown_storage, fish_table, catches,
          fish_species_cache, last_cache_update, pc, local, admitted>>

----------------------------------------------------------------------------
(* Bounds and configuration *)

MaxTime == 3
MaxCatches == 2
max_requests == 2
window_seconds == 2
cooldown_seconds == 2
cache_duration == 2
MaxHistory == 3

Users == {"p1", "p2"}
Requests == {"r1", "r2"}
NoUser == "none"

----------------------------------------------------------------------------
(* Data *)

NoFish == [id |-> "none", base_probability |-> 0, min_weight |-> 0,
           max_weight |-> 0, points |-> 0]

Trout == [id |-> "trout", base_probability |-> 9000, min_weight |-> 1000,
          max_weight |-> 2000, points |-> 10]

\* A species whose probability is below 0.001.
Kraken == [id |-> "kraken", base_probability |-> 5, min_weight |-> 1000,
           max_weight |-> 2000, points |-> 1000]

\* A species of one fixed weight, given to three decimal places.
Eel == [id |-> "eel", base_probability |-> 1000, min_weight |-> 1004,
        max_weight |-> 1004, points |-> 50]

StandardCatalog == <<Trout>>

\* The values random.gauss may return for a species whose weights range.
Draws == {900, 1996}

\* random.gauss(mean, std_dev): with min_weight = max_weight the deviation
\* is 0 and the draw is the mean itself.
Gauss(fish) ==
    IF fish.min_weight = fish.max_weight THEN {fish.min_weight} ELSE Draws

\* The credential a request carries in its Authorization header: none, one
\* that is not "Bearer <token>", a token jwt.decode rejects as expired or
\* as invalid, or a token that verifies; sub is the subject the token's
\* payload states, if any.
Credentials ==
    {[kind |-> k, sub |-> NoUser] : k \in {"absent", "malformed"}}
    \cup {[kind |-> k, sub |-> u] :
             k \in {"expired", "badsig", "valid"}, u \in Users \cup {NoUser}}

NoCredential == [kind |-> "none", sub |-> NoUser]

InitLocal ==
    [cred |-> NoCredential,     \* what the Authorization header carried
     user_id |-> NoUser,        \* request.user_id
     rl_now |-> 0,              \* now of rate_limit
     pruned |-> <<>>,           \* the list the comprehension built
     can_cast |-> TRUE,
     remaining |-> 0,
     cd_now |-> 0,              \* the clock check_cooldown read
     current_time |-> 0,        \* current_time of get_all_fish_species
     data |-> <<>>,             \* response.data of the species fetch
     fish_list |-> <<>>,
     fish |-> NoFish,
     weight |-> 0,
     prior |-> {},              \* weights check_personal_best saw
     is_personal_best |-> FALSE,
     inserted |-> 0,            \* id of the row insert_catch returned
     best_id |-> 0,             \* id the select-heaviest query returned
     cast |-> "none",           \* how cast_line ended
     cast_pb |-> FALSE,         \* CastResult.is_personal_best
     shape |-> "none",          \* shape of the route's return value
     status |-> "none",         \* what the caller sees
     events |-> <<>>,           \* what this request did, in order
     catches_before |-> <<>>,   \* table catches when cast_line began
     cache_before |-> <<>>,     \* the snapshot when get_all_fish_species began
     stamp_before |-> 0]        \* last_cache_update at that moment

----------------------------------------------------------------------------
(* Helpers *)

SeqToSet(s) == {s[i] : i \in 1..Len(s)}

Has(r, e) == \E i \in 1..Len(local[r].events) : local[r].events[i] = e

Pos(r, e) == CHOOSE i \in 1..Len(local[r].events) : local[r].events[i] = e

Log(r, e) == Append(local[r].events, e)


RECURSIVE Recent(_, _)
\* The times of history less than window_seconds before t.
Recent(history, t) ==
    IF history = <<>> THEN <<>>
    ELSE IF t - Head(history) < window_seconds
         THEN <<Head(history)>> \o Recent(Tail(history), t)
         ELSE Recent(Tail(history), t)

\* The history keeps its MaxHistory latest entries.
LastOf(history) ==
    IF Len(history) <= MaxHistory THEN history
    ELSE SubSeq(history, Len(history) - MaxHistory + 1, Len(history))

----------------------------------------------------------------------------
(* The clock *)

Tick ==
    /\ now < MaxTime
    /\ now' = now + 1
    /\ admitted' = [u \in Users |-> Recent(admitted[u], now + 1)]
    /\ UNCHANGED <<rate_limit_storage, cooldown_storage, fish_table, catches,
                   fish_species_cache, last_cache_update, pc, local>>

----------------------------------------------------------------------------
(* auth.py: pure parts *)

\* verify_token without the verification: the payload as the token states it.
verify_token_unverified(cred) == [ok |-> TRUE, sub |-> cred.sub]

\* verify_token: the payload's subject, or no payload.
verify_token(cred) ==
    IF cred.kind = "valid" THEN [ok |-> TRUE, sub |-> cred.sub]
    ELSE [ok |-> FALSE, sub |-> NoUser]

\* The filter of the list comprehension of rate_limit.
InWindow(req_time, t) == t - req_time < window_seconds

RECURSIVE CleanOld(_, _)
\* [req_time for req_time in history if now - req_time < window_seconds]
CleanOld(history, t) ==
    IF history = <<>> THEN <<>>
    ELSE IF InWindow(Head(history), t)
         THEN <<Head(history)>> \o CleanOld(Tail(history), t)
         ELSE CleanOld(Tail(history), t)

\* The test with the comparison off by one.
LimitReachedAbove(history) == Len(history) > max_requests

\* The rate-limit test.
LimitReached(history) == Len(history) >= max_requests

\* check_cooldown with the comparison made inclusive.
check_cooldown_inclusive(user_id, t) ==
    IF user_id \in DOMAIN cooldown_storage
       /\ t - cooldown_storage[user_id] <= cooldown_seconds
    THEN [can_cast |-> FALSE,
          remaining |-> cooldown_seconds - (t - cooldown_storage[user_id])]
    ELSE [can_cast |-> TRUE, remaining |-> 0]

\* check_cooldown at clock value t.
check_cooldown(user_id, t) ==
    IF user_id \in DOMAIN cooldown_storage
       /\ t - cooldown_storage[user_id] < cooldown_seconds
    THEN [can_cast |-> FALSE,
          remaining |-> cooldown_seconds - (t - cooldown_storage[user_id])]
    ELSE [can_cast |-> TRUE, remaining |-> 0]

\* set_cooldown writing one timestamp shared by all players.
set_cooldown_shared(user_id, t) == [u \in Users |-> t]

\* set_cooldown at clock value t: the dict after the assignment.
set_cooldown(user_id, t) ==
    [u \in DOMAIN cooldown_storage \cup {user_id} |->
        IF u = user_id THEN t ELSE cooldown_storage[u]]

\* Whether cooldown_required arms the cooldown for a result of this shape.
ArmsCooldown(shape) ==
    IF shape \in {"tuple200", "tuple500"}
    THEN shape = "tuple200"
    ELSE TRUE

\* The function each decorator wraps, as the position it continues at.
GatedByAuth == "rate_limit"
GatedByRateLimit == "cooldown"
GatedByCooldown == "cast"

----------------------------------------------------------------------------
(* auth.py: require_auth *)

\* Lines 38-59, for a request carrying one of the credentials creds.
Authenticate(r, creds) ==
    /\ pc[r] = "idle"
    /\ \E cred \in creds :
         IF cred.kind \in {"absent", "malformed"}
         THEN /\ pc' = [pc EXCEPT ![r] = "done"]
              /\ local' = [local EXCEPT
                             ![r].cred = cred,
                             ![r].status = IF cred.kind = "absent"
                                           THEN "401_no_header"
                                           ELSE "401_format"]
         ELSE IF ~verify_token(cred).ok
         THEN /\ pc' = [pc EXCEPT ![r] = "done"]
              /\ local' = [local EXCEPT ![r].cred = cred,
                                        ![r].status = "401_token"]
         ELSE /\ pc' = [pc EXCEPT ![r] = GatedByAuth]
              /\ local' = [local EXCEPT
                             ![r].cred = cred,
                             ![r].user_id = verify_token(cred).sub]
    /\ UNCHANGED <<admitted, now, rate_limit_storage, cooldown_storage, fish_table,
                   catches, fish_species_cache, last_cache_update>>

----------------------------------------------------------------------------
(* auth.py: rate_limit *)

\* Lines 68-79, first half: read the clock and build the pruned list.
RateLimitClean(r) ==
    /\ pc[r] = "rate_limit"
    /\ IF local[r].user_id = NoUser
       THEN /\ pc' = [pc EXCEPT ![r] = "done"]
            /\ local' = [local EXCEPT ![r].status = "401_user"]
       ELSE /\ pc' = [pc EXCEPT ![r] = "rl_store"]
            /\ local' = [local EXCEPT
                           ![r].rl_now = now,
                           ![r].pruned =
                               CleanOld(rate_limit_storage[local[r].user_id], now)]
    /\ UNCHANGED <<admitted, now, rate_limit_storage, cooldown_storage, fish_table,
                   catches, fish_species_cache, last_cache_update>>

\* Lines 76-79, second half: the assignment of the pruned list.
RateLimitStore(r) ==
    /\ pc[r] = "rl_store"
    /\ rate_limit_storage' =
           [rate_limit_storage EXCEPT ![local[r].user_id] = local[r].pruned]
    /\ pc' = [pc EXCEPT ![r] = "rl_check"]
    /\ local' = [local EXCEPT ![r].pruned = <<>>]
    /\ UNCHANGED <<admitted, now, cooldown_storage, fish_table, catches,
                   fish_species_cache, last_cache_update>>

\* Lines 81-86 with the return of the rejection lost.
RateLimitCheckFallsThrough(r) ==
    /\ pc[r] = "rl_check"
    /\ pc' = [pc EXCEPT ![r] = "rl_add"]
    /\ local' = IF LimitReached(rate_limit_storage[local[r].user_id])
                THEN [local EXCEPT ![r].status = "429_rate",
                                   ![r].events = Log(r, "rl_reject")]
                ELSE local
    /\ UNCHANGED <<admitted, now, rate_limit_storage, cooldown_storage, fish_table,
                   catches, fish_species_cache, last_cache_update>>

\* Lines 81-86 with the rejected request's time recorded as well.
RateLimitCheckRecording(r) ==
    /\ pc[r] = "rl_check"
    /\ IF LimitReached(rate_limit_storage[local[r].user_id])
       THEN /\ pc' = [pc EXCEPT ![r] = "done"]
            /\ local' = [local EXCEPT ![r].status = "429_rate",
                                      ![r].events = Log(r, "rl_reject")]
            /\ rate_limit_storage' =
                   [rate_limit_storage EXCEPT
                      ![local[r].user_id] =
                          IF Len(@) <= max_requests
                          THEN Append(@, local[r].rl_now) ELSE @]
       ELSE /\ pc' = [pc EXCEPT ![r] = "rl_add"]
            /\ local' = local
            /\ rate_limit_storage' = rate_limit_storage
    /\ UNCHANGED <<admitted, now, cooldown_storage, fish_table,
                   catches, fish_species_cache, last_cache_update>>

\* Lines 81-86.
RateLimitCheck(r) ==
    /\ pc[r] = "rl_check"
    /\ IF LimitReached(rate_limit_storage[local[r].user_id])
       THEN /\ pc' = [pc EXCEPT ![r] = "done"]
            /\ local' = [local EXCEPT ![r].status = "429_rate",
                                      ![r].events = Log(r, "rl_reject")]
       ELSE /\ pc' = [pc EXCEPT ![r] = "rl_add"]
            /\ local' = local
    /\ UNCHANGED <<admitted, now, rate_limit_storage, cooldown_storage, fish_table,
                   catches, fish_species_cache, last_cache_update>>

\* Lines 88-91.
RateLimitAdd(r) ==
    /\ pc[r] = "rl_add"
    /\ rate_limit_storage' =
           [rate_limit_storage EXCEPT
              ![local[r].user_id] = Append(@, local[r].rl_now)]
    /\ pc' = [pc EXCEPT ![r] = GatedByRateLimit]
    /\ local' = [local EXCEPT ![r].events = Log(r, "rl_record")]
    /\ admitted' = [admitted EXCEPT
                      ![local[r].user_id] =
                          LastOf(Recent(Append(@, local[r].rl_now), now))]
    /\ UNCHANGED <<now, cooldown_storage, fish_table, catches,
                   fish_species_cache, last_cache_update>>

----------------------------------------------------------------------------
(* auth.py: cooldown_required *)

\* Lines 119-131.
CooldownCheck(r) ==
    /\ pc[r] = "cooldown"
    /\ LET c == check_cooldown(local[r].user_id, now) IN
       /\ local' = [local EXCEPT
                      ![r].can_cast = c.can_cast,
                      ![r].remaining = c.remaining,
                      ![r].cd_now = now,
                      ![r].status = IF c.can_cast THEN @ ELSE "429_cooldown",
                      ![r].events =
                          Log(r, IF c.can_cast THEN "cd_pass" ELSE "cd_reject")]
       /\ pc' = [pc EXCEPT ![r] = IF c.can_cast THEN GatedByCooldown ELSE "done"]
    /\ UNCHANGED <<admitted, now, rate_limit_storage, cooldown_storage, fish_table,
                   catches, fish_species_cache, last_cache_update>>

\* Lines 136-144: the gated function returned a value of shape local.shape.
CooldownArm(r) ==
    /\ pc[r] = "arm"
    /\ IF ArmsCooldown(local[r].shape)
       THEN /\ cooldown_storage' = set_cooldown(local[r].user_id, now)
            /\ local' = [local EXCEPT ![r].events = Log(r, "cd_arm")]
       ELSE /\ cooldown_storage' = cooldown_storage
            /\ local' = local
    /\ pc' = [pc EXCEPT ![r] = "done"]
    /\ UNCHANGED <<admitted, now, rate_limit_storage, fish_table, catches,
                   fish_species_cache, last_cache_update>>

----------------------------------------------------------------------------
(* game_logic.py: pure parts *)

\* int(probability * 1000), probability in units of 1/10000.
ScaledWeight(probability) ==
    IF probability >= 0 THEN (probability * 1000) \div 10000
    ELSE 0 - (((0 - probability) * 1000) \div 10000)

\* weighted_choices holding every entry of fish_list, whatever its weight.
SelectableAny(fish_list) == 1..Len(fish_list)

\* The positions of fish_list that occur in weighted_choices.
Selectable(fish_list) ==
    {i \in 1..Len(fish_list) : ScaledWeight(fish_list[i].base_probability) > 0}

Max2(a, b) == IF a >= b THEN a ELSE b
Min2(a, b) == IF a <= b THEN a ELSE b

\* round(weight, 2) of a weight in thousandths whose last digit is not 5.
Round2(w) == IF w % 10 < 5 THEN (w \div 10) * 10 ELSE (w \div 10) * 10 + 10

\* generate_weight for the value draw of random.gauss.
generate_weight(fish, draw) ==
    Round2(Max2(fish.min_weight, Min2(fish.max_weight, draw)))

\* The rows of catches of one player and species, as row ids.
RowsOf(table, player_id, fish_species_id) ==
    {i \in 1..Len(table) : /\ table[i].player_id = player_id
                           /\ table[i].fish_species_id = fish_species_id}

\* The ids a query ordered by weight descending, limit 1, may return.
Heaviest(table, player_id, fish_species_id) ==
    {i \in RowsOf(table, player_id, fish_species_id) :
        \A j \in RowsOf(table, player_id, fish_species_id) :
            table[i].weight >= table[j].weight}

\* check_personal_best with a tie counted as a new best.
check_personal_best_ties(table, player_id, fish_species_id, weight) ==
    IF RowsOf(table, player_id, fish_species_id) = {}
    THEN TRUE
    ELSE \E i \in Heaviest(table, player_id, fish_species_id) :
            weight >= table[i].weight

\* check_personal_best against the table as the query sees it.
check_personal_best(table, player_id, fish_species_id, weight) ==
    IF RowsOf(table, player_id, fish_species_id) = {}
    THEN TRUE
    ELSE \E i \in Heaviest(table, player_id, fish_species_id) :
            weight > table[i].weight

\* The first update of update_personal_best_flags.
ClearedFlags(table, player_id, fish_species_id) ==
    [i \in 1..Len(table) |->
        IF i \in RowsOf(table, player_id, fish_species_id)
        THEN [table[i] EXCEPT !.is_personal_best = FALSE]
        ELSE table[i]]

\* The row insert_catch is called with.
NewCatch(player_id, fish, weight, is_personal_best) ==
    [player_id |-> player_id, fish_species_id |-> fish.id, weight |-> weight,
     is_personal_best |-> is_personal_best, points_earned |-> fish.points]

\* cast_line ends: its result, or the exception it lets through.
EndCast(r, how, loc) ==
    /\ pc' = [pc EXCEPT ![r] = "route"]
    /\ local' = [loc EXCEPT
                   ![r].cast = how,
                   ![r].cast_pb = IF how = "success"
                                  THEN loc[r].is_personal_best ELSE FALSE,
                   ![r].events = Append(loc[r].events, "cast")]

----------------------------------------------------------------------------
(* game_logic.py: get_all_fish_species *)

\* Lines 20-24 with a snapshot exactly cache_duration old taken as fresh.
CatalogCheckInclusive(r) ==
    /\ pc[r] = "cast"
    /\ pc' = [pc EXCEPT ![r] =
                 IF fish_species_cache # <<>>
                    /\ now - last_cache_update <= cache_duration
                 THEN "cat_hit" ELSE "cat_fetch"]
    /\ local' = [local EXCEPT ![r].current_time = now,
                              ![r].catches_before = catches,
                              ![r].cache_before = fish_species_cache,
                              ![r].stamp_before = last_cache_update]
    /\ UNCHANGED <<admitted, now, rate_limit_storage, cooldown_storage, fish_table,
                   catches, fish_species_cache, last_cache_update>>

\* Lines 20-24: the clock is read and the snapshot tested.
CatalogCheck(r) ==
    /\ pc[r] = "cast"
    /\ pc' = [pc EXCEPT ![r] =
                 IF fish_species_cache # <<>>
                    /\ now - last_cache_update < cache_duration
                 THEN "cat_hit" ELSE "cat_fetch"]
    /\ local' = [local EXCEPT ![r].current_time = now,
                              ![r].catches_before = catches,
                              ![r].cache_before = fish_species_cache,
                              ![r].stamp_before = last_cache_update]
    /\ UNCHANGED <<admitted, now, rate_limit_storage, cooldown_storage, fish_table,
                   catches, fish_species_cache, last_cache_update>>

\* Line 25: the snapshot, as it is now, is returned.
CatalogHit(r) ==
    /\ pc[r] = "cat_hit"
    /\ pc' = [pc EXCEPT ![r] = "select"]
    /\ local' = [local EXCEPT ![r].fish_list = fish_species_cache,
                              ![r].events = Log(r, "cache_hit")]
    /\ UNCHANGED <<admitted, now, rate_limit_storage, cooldown_storage, fish_table,
                   catches, fish_species_cache, last_cache_update>>

\* Lines 28-30 and 35: the fetch answers with the table, or fails.
CatalogFetch(r) ==
    /\ pc[r] = "cat_fetch"
    /\ \E ok \in BOOLEAN :
         IF ~ok
         THEN EndCast(r, "raise", [local EXCEPT ![r].events = Log(r, "fetch_failed")])
         ELSE IF fish_table # <<>>
         THEN /\ pc' = [pc EXCEPT ![r] = "cat_cache"]
              /\ local' = [local EXCEPT ![r].data = fish_table,
                                        ![r].events = Log(r, "fetch_data")]
         ELSE /\ pc' = [pc EXCEPT ![r] = "select"]
              /\ local' = [local EXCEPT ![r].data = <<>>,
                                        ![r].fish_list = <<>>,
                                        ![r].events = Log(r, "fetch_empty")]
    /\ UNCHANGED <<admitted, now, rate_limit_storage, cooldown_storage, fish_table,
                   catches, fish_species_cache, last_cache_update>>

\* Line 31 as an update of the cached list in place, seen after its first
\* entry has been written.
CatalogStoreInPlace(r) ==
    /\ pc[r] = "cat_cache"
    /\ fish_species_cache' =
           IF fish_species_cache = <<>> THEN local[r].data
           ELSE <<local[r].data[1]>> \o Tail(fish_species_cache)
    /\ pc' = [pc EXCEPT ![r] = "cat_time"]
    /\ UNCHANGED <<admitted, now, rate_limit_storage, cooldown_storage, fish_table,
                   catches, last_cache_update, local>>

\* Line 31.
CatalogStore(r) ==
    /\ pc[r] = "cat_cache"
    /\ fish_species_cache' = local[r].data
    /\ pc' = [pc EXCEPT ![r] = "cat_time"]
    /\ UNCHANGED <<admitted, now, rate_limit_storage, cooldown_storage, fish_table,
                   catches, last_cache_update, local>>

\* Lines 32-33.
CatalogStamp(r) ==
    /\ pc[r] = "cat_time"
    /\ last_cache_update' = local[r].current_time
    /\ pc' = [pc EXCEPT ![r] = "select"]
    /\ local' = [local EXCEPT ![r].fish_list = local[r].data]
    /\ UNCHANGED <<admitted, now, rate_limit_storage, cooldown_storage, fish_table,
                   catches, fish_species_cache>>

----------------------------------------------------------------------------
(* game_logic.py: cast_line *)

\* generate_random_fish lines 44-62, cast_line lines 159-172.
SelectFish(r) ==
    /\ pc[r] = "select"
    /\ IF Selectable(local[r].fish_list) = {}
       THEN EndCast(r, "no_fish", local)
       ELSE \E i \in Selectable(local[r].fish_list) :
            \E draw \in Gauss(local[r].fish_list[i]) :
              /\ pc' = [pc EXCEPT ![r] = "check_pb"]
              /\ local' = [local EXCEPT
                             ![r].fish = local[r].fish_list[i],
                             ![r].weight =
                                 generate_weight(local[r].fish_list[i], draw)]
    /\ UNCHANGED <<admitted, now, rate_limit_storage, cooldown_storage, fish_table,
                   catches, fish_species_cache, last_cache_update>>

\* check_personal_best, called at line 175.
CheckPersonalBest(r) ==
    /\ pc[r] = "check_pb"
    /\ \E ok \in BOOLEAN :
         IF ~ok
         THEN EndCast(r, "raise", local)
         ELSE /\ pc' = [pc EXCEPT ![r] = "insert"]
              /\ local' = [local EXCEPT
                    ![r].prior =
                        {catches[i].weight :
                           i \in RowsOf(catches, local[r].user_id, local[r].fish.id)},
                    ![r].is_personal_best =
                        check_personal_best(catches, local[r].user_id,
                                            local[r].fish.id, local[r].weight)]
    /\ UNCHANGED <<admitted, now, rate_limit_storage, cooldown_storage, fish_table,
                   catches, fish_species_cache, last_cache_update>>

\* save_catch lines 131-148: the insert_catch call and what follows it.
InsertCatch(r) ==
    /\ pc[r] = "insert"
    /\ \E answer \in {"row", "empty", "raise"} :
         IF answer = "raise"
         THEN /\ EndCast(r, "raise", local)
              /\ catches' = catches
         ELSE IF answer = "empty"
         THEN /\ EndCast(r, "no_save", local)
              /\ catches' = catches
         ELSE /\ catches' = Append(catches,
                      NewCatch(local[r].user_id, local[r].fish, local[r].weight,
                               local[r].is_personal_best))
              /\ IF local[r].is_personal_best
                 THEN /\ pc' = [pc EXCEPT ![r] = "clear_flags"]
                      /\ local' = [local EXCEPT
                                     ![r].inserted = Len(catches) + 1]
                 ELSE EndCast(r, "success",
                              [local EXCEPT ![r].inserted = Len(catches) + 1])
    /\ UNCHANGED <<admitted, now, rate_limit_storage, cooldown_storage, fish_table,
                   fish_species_cache, last_cache_update>>

\* update_personal_best_flags lines 107-111.
ClearFlags(r) ==
    /\ pc[r] = "clear_flags"
    /\ \E ok \in BOOLEAN :
         IF ~ok
         THEN /\ EndCast(r, "raise", local)
              /\ catches' = catches
         ELSE /\ catches' = ClearedFlags(catches, local[r].user_id, local[r].fish.id)
              /\ pc' = [pc EXCEPT ![r] = "select_best"]
              /\ local' = local
    /\ UNCHANGED <<admitted, now, rate_limit_storage, cooldown_storage, fish_table,
                   fish_species_cache, last_cache_update>>

\* update_personal_best_flags lines 114-123.
SelectBest(r) ==
    /\ pc[r] = "select_best"
    /\ \E ok \in BOOLEAN :
         IF ~ok
         THEN EndCast(r, "raise", local)
         ELSE IF Heaviest(catches, local[r].user_id, local[r].fish.id) = {}
         THEN EndCast(r, "success", local)
         ELSE \E id \in Heaviest(catches, local[r].user_id, local[r].fish.id) :
                /\ pc' = [pc EXCEPT ![r] = "set_flag"]
                /\ local' = [local EXCEPT ![r].best_id = id]
    /\ UNCHANGED <<admitted, now, rate_limit_storage, cooldown_storage, fish_table,
                   catches, fish_species_cache, last_cache_update>>

\* update_personal_best_flags lines 124-127, save_catch line 146.
SetFlag(r) ==
    /\ pc[r] = "set_flag"
    /\ \E ok \in BOOLEAN :
         IF ~ok
         THEN /\ EndCast(r, "raise", local)
              /\ catches' = catches
         ELSE /\ catches' = [catches EXCEPT
                               ![local[r].best_id].is_personal_best = TRUE]
              /\ EndCast(r, "success",
                         local)
    /\ UNCHANGED <<admitted, now, rate_limit_storage, cooldown_storage, fish_table,
                   fish_species_cache, last_cache_update>>

----------------------------------------------------------------------------
(* The route gated by the decorators, and the end of a request *)

\* The shapes the route may give the outcome of cast_line.
RouteShapes(how) ==
    IF how = "success" THEN {"tuple200", "bare"}
    ELSE IF how = "raise" THEN {"tuple500", "raise"}
    ELSE {"tuple500", "bare"}

\* The route hands the outcome of cast_line to cooldown_required; an
\* exception it lets through leaves cooldown_required at line 134.
Route(r) ==
    /\ pc[r] = "route"
    /\ \E shape \in RouteShapes(local[r].cast) :
         /\ pc' = [pc EXCEPT ![r] = IF shape = "raise" THEN "done" ELSE "arm"]
         /\ local' = [local EXCEPT
                        ![r].shape = shape,
                        ![r].status = IF local[r].cast = "success" THEN "ok"
                                      ELSE "failed"]
    /\ UNCHANGED <<admitted, now, rate_limit_storage, cooldown_storage, fish_table,
                   catches, fish_species_cache, last_cache_update>>

\* The response is sent; the worker takes the next request.
Finish(r) ==
    /\ pc[r] = "done"
    /\ pc' = [pc EXCEPT ![r] = "idle"]
    /\ local' = [local EXCEPT ![r] = InitLocal]
    /\ UNCHANGED <<admitted, now, rate_limit_storage, cooldown_storage, fish_table,
                   catches, fish_species_cache, last_cache_update>>

----------------------------------------------------------------------------
(* Specifications *)

\* The ways cast_line can end: its three returns and the exception that
\* save_catch re-raises or a store query lets through.
CastOutcomes == {"success", "no_fish", "no_save", "raise"}

\* cast_line as the gates see it: it touches no throttle state and hands
\* back one of its outcomes.  The steps that produce each outcome are the
\* actions CatalogCheck .. SetFlag, run under SpecGame.
CastLineOutcome(r) ==
    /\ pc[r] = "cast"
    /\ \E how \in CastOutcomes : EndCast(r, how, local)
    /\ UNCHANGED <<admitted, now, rate_limit_storage, cooldown_storage, fish_table,
                   catches, fish_species_cache, last_cache_update>>

\* cast_line called directly for a player.
CallCastLine(r) ==
    /\ pc[r] = "idle"
    /\ Len(catches) < MaxCatches
    /\ \E u \in Users :
         /\ pc' = [pc EXCEPT ![r] = "cast"]
         /\ local' = [local EXCEPT ![r].user_id = u]
    /\ UNCHANGED <<admitted, now, rate_limit_storage, cooldown_storage, fish_table,
                   catches, fish_species_cache, last_cache_update>>

\* cast_line hands its result, or its exception, to its caller.
CastReturn(r) ==
    /\ pc[r] = "route"
    /\ pc' = [pc EXCEPT ![r] = "done"]
    /\ local' = [local EXCEPT
                   ![r].status = IF local[r].cast = "success" THEN "ok"
                                 ELSE "failed"]
    /\ UNCHANGED <<admitted, now, rate_limit_storage, cooldown_storage, fish_table,
                   catches, fish_species_cache, last_cache_update>>

Init ==
    /\ now = 0
    /\ rate_limit_storage = [u \in Users |-> <<>>]
    /\ cooldown_storage = <<>>
    /\ fish_table = StandardCatalog
    /\ catches = <<>>
    /\ fish_species_cache = <<>>
    /\ last_cache_update = 0
    /\ pc = [r \in Requests |-> "idle"]
    /\ local = [r \in Requests |-> InitLocal]
    /\ admitted = [u \in Users |-> <<>>]

\* No other request is being handled.
Alone(r) == \A q \in Requests \ {r} : pc[q] = "idle"

\* A request of any caller arrives while no other is being handled.
RequireAuthSeq(r) == Alone(r) /\ Authenticate(r, Credentials)

\* The credentials of the requests one player sends, good and bad.
PlayerCredentials ==
    {c \in Credentials : c.sub = "p1" /\ c.kind \in {"valid", "expired"}}

\* A request of that player arrives, whatever else is being handled.
RequireAuth(r) == Authenticate(r, PlayerCredentials)

\* The gates, requests handled concurrently.
Next ==
    \/ Tick
    \/ \E r \in Requests : RequireAuth(r)
    \/ \E r \in Requests : RateLimitClean(r)
    \/ \E r \in Requests : RateLimitStore(r)
    \/ \E r \in Requests : RateLimitCheck(r)
    \/ \E r \in Requests : RateLimitAdd(r)
    \/ \E r \in Requests : CooldownCheck(r)
    \/ \E r \in Requests : CastLineOutcome(r)
    \/ \E r \in Requests : Route(r)
    \/ \E r \in Requests : CooldownArm(r)
    \/ \E r \in Requests : Finish(r)

Spec == Init /\ [][Next]_vars

\* The gates, requests handled one at a time.
NextSeq ==
    \/ Tick
    \/ \E r \in Requests : RequireAuthSeq(r)
    \/ \E r \in Requests : RateLimitClean(r)
    \/ \E r \in Requests : RateLimitStore(r)
    \/ \E r \in Requests : RateLimitCheck(r)
    \/ \E r \in Requests : RateLimitAdd(r)
    \/ \E r \in Requests : CooldownCheck(r)
    \/ \E r \in Requests : CastLineOutcome(r)
    \/ \E r \in Requests : Route(r)
    \/ \E r \in Requests : CooldownArm(r)
    \/ \E r \in Requests : Finish(r)

SpecSeq == Init /\ [][NextSeq]_vars

\* The same, with a clock that keeps advancing.
SpecSeqFair == SpecSeq /\ WF_vars(Tick)

\* cast_line against the store, calls running concurrently.
NextGame ==
    \/ \E r \in Requests : CallCastLine(r)
    \/ \E r \in Requests : CatalogCheck(r)
    \/ \E r \in Requests : CatalogHit(r)
    \/ \E r \in Requests : CatalogFetch(r)
    \/ \E r \in Requests : CatalogStore(r)
    \/ \E r \in Requests : CatalogStamp(r)
    \/ \E r \in Requests : SelectFish(r)
    \/ \E r \in Requests : CheckPersonalBest(r)
    \/ \E r \in Requests : InsertCatch(r)
    \/ \E r \in Requests : ClearFlags(r)
    \/ \E r \in Requests : SelectBest(r)
    \/ \E r \in Requests : SetFlag(r)
    \/ \E r \in Requests : CastReturn(r)
    \/ \E r \in Requests : Finish(r)

SpecGame == Init /\ [][NextGame]_vars

CallCastLineSeq(r) == Alone(r) /\ CallCastLine(r)

\* cast_line against the store, one call at a time.
NextGameSeq ==
    \/ \E r \in Requests : CallCastLineSeq(r)
    \/ \E r \in Requests : CatalogCheck(r)
    \/ \E r \in Requests : CatalogHit(r)
    \/ \E r \in Requests : CatalogFetch(r)
    \/ \E r \in Requests : CatalogStore(r)
    \/ \E r \in Requests : CatalogStamp(r)
    \/ \E r \in Requests : SelectFish(r)
    \/ \E r \in Requests : CheckPersonalBest(r)
    \/ \E r \in Requests : InsertCatch(r)
    \/ \E r \in Requests : ClearFlags(r)
    \/ \E r \in Requests : SelectBest(r)
    \/ \E r \in Requests : SetFlag(r)
    \/ \E r \in Requests : CastReturn(r)
    \/ \E r \in Requests : Finish(r)

SpecGameSeq == Init /\ [][NextGameSeq]_vars

\* The species tables the store may hold.
Catalogs == {<<>>, <<Trout>>, <<Trout, Kraken>>, <<Kraken>>, <<Eel>>}

\* The species table is edited in the store.
UpdateSpecies ==
    /\ \E t \in Catalogs : t # fish_table /\ fish_table' = t
    /\ UNCHANGED <<admitted, now, rate_limit_storage, cooldown_storage,
                   catches, fish_species_cache, last_cache_update, pc, local>>

\* get_all_fish_species called directly (as generate_random_fish does).
CallGetSpecies(r) ==
    /\ pc[r] = "idle"
    /\ pc' = [pc EXCEPT ![r] = "cast"]
    /\ UNCHANGED <<admitted, now, rate_limit_storage, cooldown_storage,
                   fish_table, catches, fish_species_cache, last_cache_update,
                   local>>

\* get_all_fish_species returns local.fish_list to its caller.
ReturnSpecies(r) ==
    /\ pc[r] = "select"
    /\ pc' = [pc EXCEPT ![r] = "done"]
    /\ local' = [local EXCEPT ![r].status = "species"]
    /\ UNCHANGED <<admitted, now, rate_limit_storage, cooldown_storage,
                   fish_table, catches, fish_species_cache, last_cache_update>>

InitCatalog ==
    /\ now = 0
    /\ rate_limit_storage = [u \in Users |-> <<>>]
    /\ cooldown_storage = <<>>
    /\ fish_table \in Catalogs
    /\ catches = <<>>
    /\ fish_species_cache = <<>>
    /\ last_cache_update = 0
    /\ pc = [r \in Requests |-> "idle"]
    /\ local = [r \in Requests |-> InitLocal]
    /\ admitted = [u \in Users |-> <<>>]

CallGetSpeciesSeq(r) == Alone(r) /\ CallGetSpecies(r)

\* The species cache, one call at a time, while the table changes.
NextCatalog ==
    \/ Tick
    \/ UpdateSpecies
    \/ \E r \in Requests : CallGetSpeciesSeq(r)
    \/ \E r \in Requests : CatalogCheck(r)
    \/ \E r \in Requests : CatalogHit(r)
    \/ \E r \in Requests : CatalogFetch(r)
    \/ \E r \in Requests : CatalogStore(r)
    \/ \E r \in Requests : CatalogStamp(r)
    \/ \E r \in Requests : ReturnSpecies(r)
    \/ \E r \in Requests : CastReturn(r)
    \/ \E r \in Requests : Finish(r)

SpecCatalog == InitCatalog /\ [][NextCatalog]_vars

\* Two species tables with no entry in the same place.
Replacements == {<<Trout, Kraken>>, <<Kraken>>}

\* The species table is replaced by the other one.
ReplaceSpecies ==
    /\ \E t \in Replacements : t # fish_table /\ fish_table' = t
    /\ UNCHANGED <<admitted, now, rate_limit_storage, cooldown_storage,
                   catches, fish_species_cache, last_cache_update, pc, local>>

InitCatalogConc ==
    /\ now = 0
    /\ rate_limit_storage = [u \in Users |-> <<>>]
    /\ cooldown_storage = <<>>
    /\ fish_table \in Replacements
    /\ catches = <<>>
    /\ fish_species_cache = <<>>
    /\ last_cache_update = 0
    /\ pc = [r \in Requests |-> "idle"]
    /\ local = [r \in Requests |-> InitLocal]
    /\ admitted = [u \in Users |-> <<>>]

\* The species cache with calls running concurrently.
NextCatalogConc ==
    \/ Tick
    \/ ReplaceSpecies
    \/ \E r \in Requests : CallGetSpecies(r)
    \/ \E r \in Requests : CatalogCheck(r)
    \/ \E r \in Requests : CatalogHit(r)
    \/ \E r \in Requests : CatalogFetch(r)
    \/ \E r \in Requests : CatalogStore(r)
    \/ \E r \in Requests : CatalogStamp(r)
    \/ \E r \in Requests : ReturnSpecies(r)
    \/ \E r \in Requests : CastReturn(r)
    \/ \E r \in Requests : Finish(r)

SpecCatalogConc == InitCatalogConc /\ [][NextCatalogConc]_vars

\* cast_line, one call at a time, against each of the species tables.
SpecCast == InitCatalog /\ [][NextGameSeq]_vars

----------------------------------------------------------------------------
(* Properties *)

UserOf(r) == local[r].user_id

\* The steps of an admission check that drops the timestamps older than
\* now - W and keeps the others (t >= now - W).
C1_StepKeepingNotOlder ==
    \A r \in Requests :
        /\ (pc[r] = "rl_store" /\ pc'[r] = "rl_check") =>
              rate_limit_storage'[UserOf(r)] =
                  SelectSeq(rate_limit_storage[UserOf(r)],
                            LAMBDA t : t >= local[r].rl_now - window_seconds)
        /\ (pc[r] = "rl_check" /\ pc'[r] # "rl_check") =>
              /\ rate_limit_storage' = rate_limit_storage
              /\ IF Len(rate_limit_storage[UserOf(r)]) >= max_requests
                 THEN pc'[r] = "done" /\ local'[r].status = "429_rate"
                 ELSE pc'[r] = "rl_add"
        /\ (pc[r] = "rl_add" /\ pc'[r] # "rl_add") =>
              rate_limit_storage'[UserOf(r)] =
                  Append(rate_limit_storage[UserOf(r)], local[r].rl_now)

C1_HistoryBounded ==
    \A u \in Users : Len(rate_limit_storage[u]) <= max_requests

\* C1 as stated: an admission check drops the recorded timestamps older
\* than now - W (keeping t >= now - W), rejects exactly when at least N
\* remain and otherwise records now; the history never holds more than N
\* timestamps.
C1_AsStated == []C1_HistoryBounded /\ [][C1_StepKeepingNotOlder]_vars

\* The steps of an admission check that keeps the timestamps less than W
\* old (now - t < W).
C1_StepKeepingInWindow ==
    \A r \in Requests :
        /\ (pc[r] = "rate_limit" /\ pc'[r] = "rl_store") =>
              local'[r].rl_now = now
        /\ (pc[r] = "rl_store" /\ pc'[r] = "rl_check") =>
              rate_limit_storage'[UserOf(r)] =
                  SelectSeq(rate_limit_storage[UserOf(r)],
                            LAMBDA t : local[r].rl_now - t < window_seconds)
        /\ (pc[r] = "rl_check" /\ pc'[r] # "rl_check") =>
              /\ rate_limit_storage' = rate_limit_storage
              /\ IF Len(rate_limit_storage[UserOf(r)]) >= max_requests
                 THEN pc'[r] = "done" /\ local'[r].status = "429_rate"
                 ELSE pc'[r] = "rl_add"
        /\ (pc[r] = "rl_add" /\ pc'[r] # "rl_add") =>
              rate_limit_storage'[UserOf(r)] =
                  Append(rate_limit_storage[UserOf(r)], local[r].rl_now)

C1_AdmittedBounded ==
    \A u \in Users : Len(admitted[u]) <= max_requests

\* C1 amended: an admission check keeps exactly the recorded timestamps
\* less than W old (now - t < W, so one exactly W old is dropped), rejects
\* exactly when at least N remain and otherwise records now; no player has
\* more than N requests admitted less than W ago, and the history never
\* holds more than N timestamps.
C1_RateLimit ==
    /\ [](C1_HistoryBounded /\ C1_AdmittedBounded)
    /\ [][C1_StepKeepingInWindow]_vars

\* A request stands rejected while N admitted requests of its player are
\* inside the window.
C1_Witness ==
    \E r \in Requests :
        /\ local[r].status = "429_rate"
        /\ Len(admitted[UserOf(r)]) = max_requests

\* The cooldown check step: its verdict, its report, and what it leaves.
C2_CheckStep ==
    \A r \in Requests :
        (pc[r] = "cooldown" /\ pc'[r] # "cooldown") =>
            /\ cooldown_storage' = cooldown_storage
            /\ IF /\ UserOf(r) \in DOMAIN cooldown_storage
                  /\ now - cooldown_storage[UserOf(r)] < cooldown_seconds
               THEN /\ pc'[r] = "done"
                    /\ local'[r].status = "429_cooldown"
                    /\ local'[r].remaining =
                           cooldown_seconds - (now - cooldown_storage[UserOf(r)])
                    /\ local'[r].remaining > 0
                    /\ local'[r].remaining <= cooldown_seconds
               ELSE /\ pc'[r] = "cast"
                    /\ local'[r].status = "none"

C2_RejectedNeverRuns ==
    \A r \in Requests :
        local[r].status = "429_cooldown" =>
            /\ pc[r] = "done"
            /\ ~Has(r, "cast")
            /\ ~Has(r, "cd_arm")

\* C2: a cast arriving while now - t < C for the stored last-success time t
\* is rejected with CooldownActive, reports remaining = C - (now - t) with
\* 0 < remaining <= C, leaves the stored timestamp unchanged and never
\* invokes the gated operation; with no stored timestamp, or with
\* now - t >= C, it passes to the gated operation.
C2_Cooldown == []C2_RejectedNeverRuns /\ [][C2_CheckStep]_vars

\* A cast stands rejected part-way through the cooldown.
C2_Witness ==
    \E r \in Requests :
        /\ local[r].status = "429_cooldown"
        /\ local[r].remaining > 0
        /\ local[r].remaining < cooldown_seconds

\* A step that changes cooldown_storage arms it for a successful cast.
C3_ArmStep ==
    cooldown_storage' # cooldown_storage =>
        \E r \in Requests : /\ pc[r] = "arm"
                            /\ local[r].cast = "success"

\* C3: the last-success timestamp of a player changes only when a gated
\* operation of that player has ended in the caller-visible success; any
\* other outcome (a failure result of any shape, an exception) leaves
\* cooldown_storage as it was.
C3_ArmedOnlyOnSuccess == [][C3_ArmStep]_vars

\* C4: within one request the rate-limit check comes before the cooldown
\* check, which comes before the gated operation, and the cooldown is armed
\* after the gated operation has returned; a request the rate limiter
\* rejected neither evaluates the cooldown nor runs the gated operation, and
\* a request the cooldown rejected has its timestamp in the rate-limit
\* history and does not run the gated operation.
C4_Ordering ==
    \A r \in Requests :
        /\ (Has(r, "cd_pass") \/ Has(r, "cd_reject")) =>
              /\ Has(r, "rl_record")
              /\ \A i \in 1..Len(local[r].events) :
                     local[r].events[i] \in {"cd_pass", "cd_reject"} =>
                         Pos(r, "rl_record") < i
        /\ Has(r, "cast") =>
              /\ Has(r, "cd_pass")
              /\ Pos(r, "cd_pass") < Pos(r, "cast")
        /\ Has(r, "cd_arm") =>
              /\ Has(r, "cast")
              /\ Pos(r, "cast") < Pos(r, "cd_arm")
        /\ Has(r, "rl_reject") =>
              /\ ~Has(r, "rl_record")
              /\ ~Has(r, "cd_pass") /\ ~Has(r, "cd_reject")
              /\ ~Has(r, "cast") /\ ~Has(r, "cd_arm")
              /\ pc[r] = "done"
        /\ Has(r, "cd_reject") =>
              /\ local[r].rl_now \in SeqToSet(rate_limit_storage[UserOf(r)])
              /\ ~Has(r, "cast") /\ ~Has(r, "cd_arm")
              /\ pc[r] = "done"

\* A request the cooldown rejected, its timestamp already recorded.
C4_Witness ==
    \E r \in Requests :
        /\ Has(r, "cd_reject")
        /\ local[r].rl_now \in SeqToSet(rate_limit_storage[UserOf(r)])

\* C5: two casts of one player that both pass the cooldown check and both
\* complete successfully were admitted at least C apart.
C5_NoDoubleAdmission ==
    \A r1 \in Requests, r2 \in Requests :
        (/\ r1 # r2
         /\ pc[r1] = "done" /\ pc[r2] = "done"
         /\ local[r1].status = "ok" /\ local[r2].status = "ok"
         /\ UserOf(r1) = UserOf(r2)
         /\ local[r1].cd_now >= local[r2].cd_now)
        => local[r1].cd_now - local[r2].cd_now >= cooldown_seconds

\* The player+species pairs that have a catch.
Pairs == {<<catches[i].player_id, catches[i].fish_species_id>> :
            i \in 1..Len(catches)}

Flagged(pair) ==
    {i \in RowsOf(catches, pair[1], pair[2]) : catches[i].is_personal_best}

\* Every cast has returned, each call now finished has succeeded, and the
\* table holds the rows of these calls only.
SuccessfulCastsOnly ==
    /\ \A r \in Requests : pc[r] = "done" /\ local[r].cast = "success"
    /\ Len(catches) = Cardinality(Requests)

\* C6: with no cast in flight, every catch flagged is_personal_best weighs
\* at least as much as every other catch of its player and species, also
\* after casts that overlapped in time (stated for overlapping casts that
\* all succeeded).
C6_BestIsHeaviest ==
    SuccessfulCastsOnly =>
        \A pair \in Pairs :
            \A i \in Flagged(pair), j \in RowsOf(catches, pair[1], pair[2]) :
                catches[i].weight >= catches[j].weight

\* C7: once all casts of a player and species have completed, exactly one
\* catch of that pair is flagged is_personal_best, however the steps of
\* concurrent casts interleaved (stated for casts that all succeeded).
C7_OneBestFlag ==
    SuccessfulCastsOnly =>
        \A pair \in Pairs : Cardinality(Flagged(pair)) = 1

\* What check_personal_best has decided, for a call past that step.
Decided(r) ==
    pc[r] \in {"insert", "clear_flags", "select_best", "set_flag"}
    \/ (pc[r] \in {"route", "done"} /\ local[r].inserted # 0)

\* The weights of the prior catches of the caller's player and species.
PriorWeights(r) ==
    {local[r].catches_before[i].weight :
        i \in RowsOf(local[r].catches_before, UserOf(r), local[r].fish.id)}

C9_AllOrNothing ==
    \A r \in Requests :
        (pc[r] = "done" /\ local[r].cast \in {"no_fish", "no_save", "raise"})
        => catches = local[r].catches_before

\* C10: when a snapshot exists and the fetch returns nothing or fails,
\* get_all_fish_species returns the snapshot it had, never an empty list or
\* an error.
C10_StaleButAvailable ==
    \A r \in Requests :
        (/\ local[r].cache_before # <<>>
         /\ Has(r, "fetch_empty") \/ Has(r, "fetch_failed"))
        => /\ local[r].cast # "raise"
           /\ local[r].fish_list = local[r].cache_before

\* The positions of a catalog whose base_probability is positive.
Eligible(fish_list) ==
    {i \in 1..Len(fish_list) : fish_list[i].base_probability > 0}

\* C11: over a non-empty catalog the species the selector can return are
\* exactly the entries with base_probability > 0, also those whose
\* probability is below 0.001; the selection weights of any two eligible
\* species are in the ratio of their base_probability values; and the
\* species a selection returned has a positive probability.
C11_Proportional ==
    \A r \in Requests :
        /\ (pc[r] = "select" /\ local[r].fish_list # <<>>) =>
              /\ Selectable(local[r].fish_list) = Eligible(local[r].fish_list)
              /\ \A i \in Eligible(local[r].fish_list),
                    j \in Eligible(local[r].fish_list) :
                     ScaledWeight(local[r].fish_list[i].base_probability)
                         * local[r].fish_list[j].base_probability
                     = ScaledWeight(local[r].fish_list[j].base_probability)
                         * local[r].fish_list[i].base_probability
        /\ pc[r] = "check_pb" => local[r].fish.base_probability > 0

\* C12: for a species with 0 < min_weight <= max_weight the weight
\* generate_weight returned lies in [min_weight, max_weight] whatever the
\* draw was, and equals the bound when min_weight = max_weight, also when
\* the bounds have more than two decimal places.
C12_WeightInRange ==
    \A r \in Requests :
        (/\ pc[r] = "check_pb"
         /\ 0 < local[r].fish.min_weight
         /\ local[r].fish.min_weight <= local[r].fish.max_weight)
        => /\ local[r].fish.min_weight <= local[r].weight
           /\ local[r].weight <= local[r].fish.max_weight
           /\ local[r].fish.min_weight = local[r].fish.max_weight
                  => local[r].weight = local[r].fish.min_weight

\* The recorded timestamps of a player still inside the window.
InsideWindow(u) == CleanOld(rate_limit_storage[u], now)

\* The check step admits exactly when fewer than N recorded timestamps are
\* inside the window, and a rejection records nothing.
C13_CheckStep ==
    \A r \in Requests :
        (pc[r] = "rl_check" /\ pc'[r] # "rl_check") =>
            /\ rate_limit_storage' = rate_limit_storage
            /\ pc'[r] = "rl_add" <=>
                   Len(CleanOld(rate_limit_storage[UserOf(r)], local[r].rl_now))
                       < max_requests
            /\ pc'[r] # "rl_add" =>
                   pc'[r] = "done" /\ local'[r].status = "429_rate"

\* A rejected request saw N timestamps inside its window and left none.
C13_RejectedWhileFull ==
    \A r \in Requests :
        local[r].status = "429_rate" =>
            /\ ~Has(r, "rl_record")
            /\ Len(rate_limit_storage[UserOf(r)]) = max_requests
            /\ \A i \in 1..Len(rate_limit_storage[UserOf(r)]) :
                   local[r].rl_now - rate_limit_storage[UserOf(r)][i]
                       < window_seconds

\* A full window whose oldest timestamp expires within the modelled time
\* is followed by a state with fewer than N timestamps inside the window.
C13_Recovers ==
    \A u \in Users :
        (/\ Len(InsideWindow(u)) >= max_requests
         /\ Head(InsideWindow(u)) + window_seconds <= MaxTime)
        ~> (Len(InsideWindow(u)) < max_requests)

\* C13: with N timestamps inside the window a request is rejected
\* RateLimited and records no timestamp; a request is admitted at the first
\* check at which fewer than N recorded timestamps are inside the window;
\* and while the clock advances a full window always empties again, so no
\* player stays rate-limited forever.
C13_Recovery ==
    /\ []C13_RejectedWhileFull
    /\ [][C13_CheckStep]_vars
    /\ C13_Recovers

\* A request was rejected, the clock has since passed the window of the
\* oldest recorded timestamp, and the player can be admitted again.
C13_Witness ==
    \E r \in Requests :
        /\ local[r].status = "429_rate"
        /\ now - Head(rate_limit_storage[UserOf(r)]) >= window_seconds
        /\ Len(InsideWindow(UserOf(r))) < max_requests

\* The rate-limit history and the cooldown state of every player.
Throttle == <<rate_limit_storage, cooldown_storage>>

\* A step of a request that carries no verified identity changes no
\* throttle state.
C14_UnidentifiedStep ==
    \A r \in Requests :
        (pc'[r] # pc[r] /\ local'[r].cred.kind # "none"
         /\ (local'[r].cred.kind # "valid" \/ local'[r].cred.sub = NoUser))
        => Throttle' = Throttle

C14_Gate ==
    \A r \in Requests :
        /\ local[r].cred.kind \in {"absent", "malformed", "expired", "badsig"} =>
              /\ pc[r] = "done"
              /\ local[r].status \in {"401_no_header", "401_format", "401_token"}
              /\ local[r].cred.kind \in {"expired", "badsig"} =>
                     local[r].status = "401_token"
              /\ local[r].user_id = NoUser
              /\ local[r].events = <<>>
        /\ (local[r].cred.kind = "valid" /\ local[r].cred.sub = NoUser) =>
              /\ pc[r] \in {"rate_limit", "done"}
              /\ pc[r] = "done" => local[r].status = "401_user"
              /\ local[r].events = <<>>
        /\ pc[r] \notin {"idle", "done"} =>
              /\ local[r].cred.kind = "valid"
              /\ local[r].user_id = local[r].cred.sub
        /\ (local[r].events # <<>> \/ pc[r] \in {"rl_store", "rl_check", "rl_add"}) =>
              /\ local[r].cred.kind = "valid"
              /\ local[r].user_id = local[r].cred.sub
              /\ local[r].user_id \in Users

\* C14: the gated handler runs only for a request whose credential
\* verified and stated a player; an absent, malformed, expired or wrongly
\* signed credential ends the request with an authentication error (the
\* same one for expired and wrongly signed), with no handler step taken and
\* no throttle state changed; the throttle key is the subject of the
\* verified payload, and a request without an identity changes no throttle
\* state.
C14_SessionGate == []C14_Gate /\ [][C14_UnidentifiedStep]_vars

\* A request whose token states player p1 but has a bad signature stands
\* rejected while p1 has throttle state of its own.
C14_Witness ==
    \E r \in Requests :
        /\ local[r].cred = [kind |-> "badsig", sub |-> "p1"]
        /\ local[r].status = "401_token"
        /\ rate_limit_storage["p1"] # <<>>
        /\ "p1" \in DOMAIN cooldown_storage

\* No entry of the catalog has a positive selection weight.
NoneEligible(fish_list) ==
    \A i \in 1..Len(fish_list) :
        ScaledWeight(fish_list[i].base_probability) <= 0

\* The selection step over a catalog without eligible species ends the cast.
C15_SelectStep ==
    \A r \in Requests :
        (pc[r] = "select" /\ pc'[r] # "select"
         /\ NoneEligible(local[r].fish_list))
        => /\ pc'[r] = "route"
           /\ local'[r].cast = "no_fish"
           /\ catches' = catches

C15_NothingDone ==
    \A r \in Requests :
        (/\ pc[r] \in {"route", "done"}
         /\ ~Has(r, "fetch_failed")
         /\ NoneEligible(local[r].fish_list))
        => /\ local[r].cast = "no_fish"
           /\ local[r].fish = NoFish
           /\ local[r].weight = 0
           /\ local[r].prior = {} /\ ~local[r].is_personal_best
           /\ local[r].inserted = 0
           /\ ~local[r].cast_pb
           /\ catches = local[r].catches_before

\* C15: when the catalog get_all_fish_species returned has no eligible
\* species (it is empty, or no entry has a positive selection weight), the
\* cast ends in failure with no species, weight or points, without the
\* prior-best query, without an insert and with the table of catches and
\* its flags as they were.
C15_EmptyCatalog == []C15_NothingDone /\ [][C15_SelectStep]_vars

\* A cast failed over a catalog whose only species has selection weight 0.
C15_Witness ==
    \E r \in Requests :
        /\ pc[r] = "done"
        /\ local[r].cast = "no_fish"
        /\ local[r].fish_list = <<Kraken>>

\* C16: for every interleaving of the prune, count and append steps of
\* concurrent requests of one player, a request the limiter admitted still
\* has its timestamp in the recorded history while that timestamp is inside
\* the window, and no player has more than max_requests requests admitted
\* with timestamps inside one window.
C16_NoLostUpdate ==
    /\ \A r \in Requests :
          (Has(r, "rl_record") /\ now - local[r].rl_now < window_seconds)
          => local[r].rl_now \in SeqToSet(rate_limit_storage[UserOf(r)])
    /\ \A u \in Users : Len(admitted[u]) <= max_requests

\* C17: a cast that has finished inserted a catch row exactly when it
\* returned success, the table then holds the rows it held when the cast
\* began plus that one row at most, and no row is ever removed; so the rows
\* of finished casts are as many as the casts that returned success.
C17_OneCatchPerSuccess ==
    \A r \in Requests :
        pc[r] = "done" =>
            /\ local[r].inserted # 0 <=> local[r].cast = "success"
            /\ Len(catches) = Len(local[r].catches_before)
                                 + (IF local[r].cast = "success" THEN 1 ELSE 0)

\* The snapshot and the time of its last refresh.
Snapshot == <<fish_species_cache, last_cache_update>>

\* The steps of get_all_fish_species: which way the test goes, what each
\* way returns and what it writes.
C18_Step ==
    \A r \in Requests :
        /\ (pc[r] = "cast" /\ pc'[r] # "cast") =>
              /\ local'[r].current_time = now
              /\ pc'[r] = IF fish_species_cache # <<>>
                             /\ now - last_cache_update < cache_duration
                          THEN "cat_hit" ELSE "cat_fetch"
              /\ Snapshot' = Snapshot
        /\ (pc[r] = "cat_hit" /\ pc'[r] # "cat_hit") =>
              /\ local'[r].fish_list = fish_species_cache
              /\ local'[r].fish_list # <<>>
              /\ ~Has(r, "fetch_data") /\ ~Has(r, "fetch_empty")
              /\ ~Has(r, "fetch_failed")
              /\ Snapshot' = Snapshot
        /\ (pc[r] = "cat_fetch" /\ pc'[r] # "cat_fetch") =>
              /\ Snapshot' = Snapshot
              /\ pc'[r] = "cat_cache" =>
                     local'[r].data = fish_table /\ fish_table # <<>>
        /\ (pc[r] = "cat_cache" /\ pc'[r] # "cat_cache") =>
              /\ fish_species_cache' = local[r].data
              /\ last_cache_update' = last_cache_update
              /\ pc'[r] = "cat_time"
        /\ (pc[r] = "cat_time" /\ pc'[r] # "cat_time") =>
              /\ last_cache_update' = local[r].current_time
              /\ fish_species_cache' = fish_species_cache
              /\ fish_species_cache = local[r].data
              /\ local'[r].fish_list = local[r].data

\* The snapshot and last_refresh change only in a refresh.
C18_OnlyRefreshWrites ==
    /\ fish_species_cache' # fish_species_cache =>
           \E r \in Requests : pc[r] = "cat_cache" /\ pc'[r] = "cat_time"
    /\ last_cache_update' # last_cache_update =>
           \E r \in Requests : /\ pc[r] = "cat_time" /\ pc'[r] # "cat_time"
                                /\ fish_species_cache = local[r].data

\* C18: with a non-empty snapshot and now - last_refresh < ttl,
\* get_all_fish_species returns the snapshot without a fetch and leaves
\* snapshot and last_refresh as they are; otherwise it fetches, and on a
\* non-empty result the snapshot becomes the fetched list and last_refresh
\* the time of the call; last_refresh changes only in a refresh that has
\* replaced the snapshot.
C18_Freshness == [][C18_Step /\ C18_OnlyRefreshWrites]_vars

\* A call returned the snapshot in the last second of its freshness,
\* although the table has changed since.
C18_Witness ==
    \E r \in Requests :
        /\ local[r].status = "species"
        /\ Has(r, "cache_hit")
        /\ local[r].current_time - last_cache_update = cache_duration - 1
        /\ local[r].fish_list = fish_species_cache
        /\ fish_species_cache # fish_table

\* What a reader returns is a whole list: the snapshot as it stands when
\* the reader returns it, or the whole list the reader itself fetched.
C19_ReturnStep ==
    \A r \in Requests :
        /\ (pc[r] = "cat_hit" /\ pc'[r] # "cat_hit") =>
              /\ local'[r].fish_list = fish_species_cache
              /\ fish_species_cache \in Replacements
        /\ (pc[r] = "cat_time" /\ pc'[r] # "cat_time") =>
              /\ local'[r].fish_list = local[r].data
              /\ local[r].data \in Replacements
        /\ (pc[r] = "cat_cache" /\ pc'[r] # "cat_cache") =>
              fish_species_cache' = local[r].data

C19_Whole ==
    /\ fish_species_cache \in Replacements \cup {<<>>}
    /\ \A r \in Requests :
          local[r].status = "species" =>
              /\ local[r].fish_list \in Replacements \cup {<<>>}
              /\ Has(r, "cache_hit") => local[r].fish_list \in Replacements
              /\ Has(r, "fetch_data") => local[r].fish_list = local[r].data

\* C19: however a refresh interleaves with concurrent readers, the
\* snapshot is at every moment one whole list the store held, and the list
\* a reader returns is the whole snapshot of before or of after the
\* refresh (or the whole list the reader fetched itself), never entries of
\* two lists mixed, although snapshot and last_refresh are written in two
\* steps.
C19_AtomicRefresh == []C19_Whole /\ [][C19_ReturnStep]_vars

\* A reader that tested the old snapshot returned the new one, whole, while
\* the refresh had written the snapshot and not yet last_refresh.
C19_Witness ==
    \E r \in Requests, q \in Requests :
        /\ pc[q] = "cat_time"
        /\ Has(r, "cache_hit") /\ local[r].status = "species"
        /\ local[r].fish_list = local[q].data
        /\ local[r].fish_list # local[r].cache_before
        /\ local[r].cache_before # <<>>

\* The throttle state of one player: its history and its last-success
\* time, if it has one.
ThrottleOf(u) ==
    <<rate_limit_storage[u],
      IF u \in DOMAIN cooldown_storage THEN <<cooldown_storage[u]>> ELSE <<>>>>

\* A step of a request leaves the throttle state of every other player as
\* it is, and its two admission decisions read its own player's state.
C20_Step ==
    \A r \in Requests :
        pc'[r] # pc[r] =>
            /\ \A u \in Users \ {UserOf(r)} : ThrottleOf(u)' = ThrottleOf(u)
            /\ pc[r] = "rl_check" =>
                   (pc'[r] = "rl_add" <=>
                       Len(rate_limit_storage[UserOf(r)]) < max_requests)
            /\ pc[r] = "cooldown" =>
                   (pc'[r] = "cast" <=>
                       ThrottleOf(UserOf(r))[2] \in
                           {<<>>} \cup {<<t>> : t \in 0..(now - cooldown_seconds)})

\* C20: whatever a request of one player does (admitted, rate-limited,
\* rejected by the cooldown, successful or failed), the rate-limit history
\* and the last-success timestamp of every other player stay unchanged, and
\* the admission decisions for a player depend on that player's own
\* history and timestamp only.
C20_Independence == [][C20_Step]_vars

\* A request of p2 passed both gates while p1 had a full window and an
\* active cooldown.
C20_Witness ==
    \E r \in Requests :
        /\ UserOf(r) = "p2"
        /\ Has(r, "cd_pass")
        /\ Len(InsideWindow("p1")) = max_requests
        /\ "p1" \in DOMAIN cooldown_storage
        /\ now - cooldown_storage["p1"] < cooldown_seconds

====
